---- MODULE Spec2Model ----
(***************************************************************************)
(* Model of fontawesome5/make-fontawesome5.py: the name normaliser         *)
(* make_cmdname, the statement builders make_map and make_cmd, and the     *)
(* run of main (output-file check, load, sort, generate, write).           *)
(*                                                                         *)
(* Text is modelled as a sequence of tokens.  Every character that comes   *)
(* from the input (icon names, code points) is one single-character token; *)
(* the fixed pieces of the format strings and the font family identifiers  *)
(* are one token each.                                                     *)
(***************************************************************************)
EXTENDS Integers, Sequences, FiniteSets, TLC

VARIABLES
    \* ---- run of main ----
    pc,            \* position of main
    clobber,       \* args.clobber
    outfile,       \* the file at args.outfile: [exists, text]
    keys,          \* icons.keys() in insertion (document) order
    icons,         \* the loaded mapping name -> [unicode, styles]
    loaded,        \* TRUE once the input data was read and parsed
    icon_list, mappings, cmds_regular, cmds_solid, cmds_brands,
    \* ---- one call of make_cmdname ----
    n_pc, n_name, n_out,
    \* ---- one call of make_cmd ----
    c_pc, c_name, c_icon, c_style, c_out

mainVars == <<pc, clobber, outfile, keys, icons, loaded,
              icon_list, mappings, cmds_regular, cmds_solid, cmds_brands>>
nameVars == <<n_pc, n_name, n_out>>
cmdVars  == <<c_pc, c_name, c_icon, c_style, c_out>>
vars     == <<mainVars, nameVars, cmdVars>>

----------------------------------------------------------------------------
(* Bounds *)

MaxNameLen == 3      \* longest input of the make_cmdname calls explored
MaxIcons   == 2      \* largest icon set explored

----------------------------------------------------------------------------
(* Characters: code point order and str.upper() *)

LowerLetters == <<"a","b","c","d","e","f","g","h","i","j","k","l","m",
                  "n","o","p","q","r","s","t","u","v","w","x","y","z">>
UpperLetters == <<"A","B","C","D","E","F","G","H","I","J","K","L","M",
                  "N","O","P","Q","R","S","T","U","V","W","X","Y","Z">>
Digits       == <<"0","1","2","3","4","5","6","7","8","9">>

\* the characters in increasing code point order: '-' (45), digits, A-Z, a-z
CharOrder == <<"-">> \o Digits \o UpperLetters \o LowerLetters

Ord(c) == CHOOSE i \in 1..Len(CharOrder) : CharOrder[i] = c

IsLower(c) == \E i \in 1..26 : LowerLetters[i] = c
IsUpperLetter(c) == \E i \in 1..26 : UpperLetters[i] = c
IsDigit(c) == \E i \in 1..10 : Digits[i] = c

\* c.upper() for one character
Upper(c) == IF IsLower(c)
            THEN UpperLetters[CHOOSE i \in 1..26 : LowerLetters[i] = c]
            ELSE c

\* s.upper() for a string
UpperStr(s) == [i \in 1..Len(s) |-> Upper(s[i])]

\* Python's str '<' : lexicographic by code point, a proper prefix is smaller
RECURSIVE StrLess(_, _)
StrLess(a, b) ==
    IF b = <<>> THEN FALSE
    ELSE IF a = <<>> THEN TRUE
    ELSE IF Ord(a[1]) < Ord(b[1]) THEN TRUE
    ELSE IF Ord(a[1]) > Ord(b[1]) THEN FALSE
    ELSE StrLess(Tail(a), Tail(b))

----------------------------------------------------------------------------
(* FONTS *)

Styles == {"regular", "solid", "brands"}

FONTS == [regular |-> "FontAwesomeRegular",
          solid   |-> "FontAwesomeSolid",
          brands  |-> "FontAwesomeBrands"]

----------------------------------------------------------------------------
(* make_cmdname *)

\* variant: the flag is not cleared after a character is appended
RECURSIVE CmdnameLoop_noreset(_, _, _, _)
CmdnameLoop_noreset(name, i, upper, cmdname) ==
    IF i > Len(name) THEN cmdname
    ELSE IF name[i] = "-" THEN CmdnameLoop_noreset(name, i + 1, TRUE, cmdname)
    ELSE LET up == IF i = 1 THEN TRUE ELSE upper
         IN  CmdnameLoop_noreset(name, i + 1, up,
                 Append(cmdname, IF up THEN Upper(name[i]) ELSE name[i]))

\* variant: the flag is not set at index 0
RECURSIVE CmdnameLoop_nofirst(_, _, _, _)
CmdnameLoop_nofirst(name, i, upper, cmdname) ==
    IF i > Len(name) THEN cmdname
    ELSE IF name[i] = "-" THEN CmdnameLoop_nofirst(name, i + 1, TRUE, cmdname)
    ELSE CmdnameLoop_nofirst(name, i + 1, FALSE,
                 Append(cmdname, IF upper THEN Upper(name[i]) ELSE name[i]))

\* the body of the for loop, from index i on, with the flag `upper`
RECURSIVE CmdnameLoop(_, _, _, _)
CmdnameLoop(name, i, upper, cmdname) ==
    IF i > Len(name) THEN cmdname
    ELSE IF name[i] = "-" THEN CmdnameLoop(name, i + 1, TRUE, cmdname)
    ELSE LET up == IF i = 1 THEN TRUE ELSE upper
         IN  CmdnameLoop(name, i + 1, FALSE,
                 Append(cmdname, IF up THEN Upper(name[i]) ELSE name[i]))

make_cmdname(name) == CmdnameLoop(name, 1, FALSE, <<>>)

----------------------------------------------------------------------------
(* make_map and make_cmd *)

\* variant: the code point is written as given, not upper-cased
make_map_noupper(name, symbol) ==
    <<"\\expandafter\\def\\csname faicon@">> \o name
        \o <<"\\endcsname{\\symbol{\"">> \o symbol \o <<"}}">>

make_map(name, symbol) ==
    <<"\\expandafter\\def\\csname faicon@">> \o name
        \o <<"\\endcsname{\\symbol{\"">> \o UpperStr(symbol) \o <<"}}">>

\* results of make_cmd: a statement, None, or a raised ValueError
None       == [kind |-> "None",       text |-> <<>>]
ValueError == [kind |-> "ValueError", text |-> <<>>]
Stmt(t)    == [kind |-> "stmt",       text |-> t]

\* variant: an unknown style is treated as a style without fallback
Fallback_noraise(style) ==
    IF style = "solid" THEN "regular"
    ELSE IF style = "regular" THEN "solid"
    ELSE "None"

\* variant: only solid has a fallback
Fallback_solidonly(style) ==
    IF style = "solid" THEN "regular"
    ELSE IF style = "regular" THEN "None"
    ELSE IF style = "brands" THEN "None"
    ELSE "invalid"

\* the fallback chosen by the if/elif chain; "invalid" stands for the raise
Fallback(style) ==
    IF style = "solid" THEN "regular"
    ELSE IF style = "regular" THEN "solid"
    ELSE IF style = "brands" THEN "None"
    ELSE "invalid"

CmdText(font, cmdname, name) ==
    <<"\\def\\fa">> \o cmdname \o <<"{{\\", font, "\\csname faicon@">>
        \o name \o <<"\\endcsname}}">>

\* variant: the fallback branch uses the font of the requested style
make_cmd_stylefont(name, icon, style) ==
    LET cmdname  == make_cmdname(name)
        fallback == Fallback(style)
    IN  IF fallback = "invalid" THEN ValueError
        ELSE IF style \in icon.styles
             THEN Stmt(CmdText(FONTS[style], cmdname, name))
        ELSE IF fallback \in icon.styles
             THEN Stmt(CmdText(FONTS[style], cmdname, name))
        ELSE None

make_cmd(name, icon, style) ==
    LET cmdname  == make_cmdname(name)
        fallback == Fallback(style)
    IN  IF fallback = "invalid" THEN ValueError
        ELSE IF style \in icon.styles
             THEN Stmt(CmdText(FONTS[style], cmdname, name))
        ELSE IF fallback \in icon.styles
             THEN Stmt(CmdText(FONTS[fallback], cmdname, name))
        ELSE None

----------------------------------------------------------------------------
(* main: helpers *)

\* sorted(): the ascending order of a list of strings
RECURSIVE InsertSorted(_, _)
InsertSorted(x, s) ==
    IF s = <<>> THEN <<x>>
    ELSE IF StrLess(x, s[1]) THEN <<x>> \o s
    ELSE <<s[1]>> \o InsertSorted(x, Tail(s))

\* variant: the keys are used in the order given
sorted_asgiven(s) == s

RECURSIVE sorted(_)
sorted(s) ==
    IF s = <<>> THEN <<>>
    ELSE InsertSorted(s[Len(s)], sorted(SubSeq(s, 1, Len(s) - 1)))

\* [make_map(name, icons[name]["unicode"]) for name in icon_list]
MakeMappings(il, ic) ==
    [i \in 1..Len(il) |-> make_map(il[i], ic[il[i]].unicode)]

\* [make_cmd(name, icons[name], style=style) for name in icon_list]
MakeCmds(il, ic, style) ==
    [i \in 1..Len(il) |-> make_cmd(il[i], ic[il[i]], style)]

\* truth value of a make_cmd result in `if cmd`: None and "" are false
Truthy(cmd) == cmd.kind = "stmt" /\ cmd.text # <<>>

\* variant: nothing is excluded
ExcludeNone_keep(cmds) == cmds

\* [cmd for cmd in cmds if cmd]
RECURSIVE ExcludeNone(_)
ExcludeNone(cmds) ==
    IF cmds = <<>> THEN <<>>
    ELSE IF Truthy(cmds[1]) THEN <<cmds[1]>> \o ExcludeNone(Tail(cmds))
    ELSE ExcludeNone(Tail(cmds))

\* "\n".join(lines)
RECURSIVE JoinLines(_)
JoinLines(lines) ==
    IF lines = <<>> THEN <<>>
    ELSE IF Len(lines) = 1 THEN lines[1]
    ELSE lines[1] \o <<"\n">> \o JoinLines(Tail(lines))

\* STY_TEMPLATE % data: the four generated blocks in the template's order
\* (mappings, cmds_solid, cmds_regular, cmds_brands)
StyText(maps, solid, regular, brands) ==
    <<JoinLines(maps), JoinLines([i \in 1..Len(solid) |-> solid[i].text]),
      JoinLines([i \in 1..Len(regular) |-> regular[i].text]),
      JoinLines([i \in 1..Len(brands) |-> brands[i].text])>>

----------------------------------------------------------------------------
(* Inputs *)

\* icon names: lowercase alphanumeric segments joined by hyphens
NamePool == { <<"a","-","1">>, <<"a","1">>, <<"a","-","b">> }

Unicodes == { <<"f","1","1","8">>, <<"f","0","9","b">> }

IconRecords == [unicode : Unicodes, styles : (SUBSET Styles) \ {{}}]

\* the key orders a loaded mapping can have: distinct names, any order
KeyOrders ==
    { s \in UNION { [1..k -> NamePool] : k \in 0..MaxIcons } :
        \A i, j \in 1..Len(s) : i # j => s[i] # s[j] }

Range(s) == { s[i] : i \in 1..Len(s) }

\* an output file that is there before the run, and no file
OldFile == [exists |-> TRUE,  text |-> <<<<"old">>>>]
NoFile  == [exists |-> FALSE, text |-> <<>>]

\* inputs of the make_cmdname calls: every string over a small alphabet,
\* and the two names the documentation gives
NameAlphabet == {"a", "b", "1", "-"}
FontAwesomeName == <<"f","o","n","t","-","a","w","e","s","o","m","e">>
GithubName == <<"g","i","t","h","u","b">>
NameInputs ==
    UNION { [1..k -> NameAlphabet] : k \in 0..MaxNameLen }
        \cup {FontAwesomeName, GithubName}

\* style arguments of the make_cmd calls: the three styles and two others
StyleArgs == Styles \cup {"light", "duotone"}
CmdIcons == [unicode : Unicodes, styles : SUBSET Styles]

----------------------------------------------------------------------------
(* Idle values of the variables a specification does not use *)

MainIdle ==
    /\ pc = "idle" /\ clobber = FALSE /\ outfile = NoFile
    /\ keys = <<>> /\ icons = <<>> /\ loaded = FALSE
    /\ icon_list = <<>> /\ mappings = <<>>
    /\ cmds_regular = <<>> /\ cmds_solid = <<>> /\ cmds_brands = <<>>
NameIdle == n_pc = "idle" /\ n_name = <<>> /\ n_out = <<>>
CmdIdle ==
    /\ c_pc = "idle" /\ c_name = <<>> /\ c_style = "solid"
    /\ c_icon = [unicode |-> <<>>, styles |-> {}] /\ c_out = None

----------------------------------------------------------------------------
(* main *)

InitMain ==
    /\ pc = "check"
    /\ clobber \in BOOLEAN
    /\ outfile \in {OldFile, NoFile}
    /\ keys \in KeyOrders
    /\ icons \in [Range(keys) -> IconRecords]
    /\ loaded = FALSE
    /\ icon_list = <<>> /\ mappings = <<>>
    /\ cmds_regular = <<>> /\ cmds_solid = <<>> /\ cmds_brands = <<>>
    /\ NameIdle /\ CmdIdle

\* os.path.exists(outfile) and args.clobber: os.remove
RemoveExisting ==
    /\ pc = "check" /\ outfile.exists /\ clobber
    /\ outfile' = NoFile
    /\ pc' = "read"
    /\ UNCHANGED <<clobber, keys, icons, loaded, icon_list, mappings,
                   cmds_regular, cmds_solid, cmds_brands, nameVars, cmdVars>>

\* variant: an existing file does not stop the run
RaiseExists_continue ==
    /\ pc = "check" /\ outfile.exists /\ ~clobber
    /\ pc' = "read"
    /\ UNCHANGED <<clobber, outfile, keys, icons, loaded, icon_list, mappings,
                   cmds_regular, cmds_solid, cmds_brands, nameVars, cmdVars>>

\* os.path.exists(outfile) and not args.clobber: raise OSError
RaiseExists ==
    /\ pc = "check" /\ outfile.exists /\ ~clobber
    /\ pc' = "OSError"
    /\ UNCHANGED <<clobber, outfile, keys, icons, loaded, icon_list, mappings,
                   cmds_regular, cmds_solid, cmds_brands, nameVars, cmdVars>>

\* not os.path.exists(outfile)
NoExisting ==
    /\ pc = "check" /\ ~outfile.exists
    /\ pc' = "read"
    /\ UNCHANGED <<clobber, outfile, keys, icons, loaded, icon_list, mappings,
                   cmds_regular, cmds_solid, cmds_brands, nameVars, cmdVars>>

\* read the data (file or download), yaml.safe_load, sorted(icons.keys())
LoadIcons ==
    /\ pc = "read"
    /\ loaded' = TRUE
    /\ icon_list' = sorted(keys)
    /\ pc' = "build"
    /\ UNCHANGED <<clobber, outfile, keys, icons, mappings,
                   cmds_regular, cmds_solid, cmds_brands, nameVars, cmdVars>>

\* the four list comprehensions over icon_list
BuildLists ==
    /\ pc = "build"
    /\ mappings' = MakeMappings(icon_list, icons)
    /\ cmds_regular' = MakeCmds(icon_list, icons, "regular")
    /\ cmds_solid' = MakeCmds(icon_list, icons, "solid")
    /\ cmds_brands' = MakeCmds(icon_list, icons, "brands")
    /\ pc' = "exclude"
    /\ UNCHANGED <<clobber, outfile, keys, icons, loaded, icon_list,
                   nameVars, cmdVars>>

\* Exclude None's
ExcludeNones ==
    /\ pc = "exclude"
    /\ cmds_regular' = ExcludeNone(cmds_regular)
    /\ cmds_solid' = ExcludeNone(cmds_solid)
    /\ cmds_brands' = ExcludeNone(cmds_brands)
    /\ pc' = "write"
    /\ UNCHANGED <<clobber, outfile, keys, icons, loaded, icon_list, mappings,
                   nameVars, cmdVars>>

\* open(args.outfile, "w").write(STY_TEMPLATE % data)
WriteOutfile ==
    /\ pc = "write"
    /\ outfile' = [exists |-> TRUE,
                   text |-> StyText(mappings, cmds_solid, cmds_regular,
                                    cmds_brands)]
    /\ pc' = "done"
    /\ UNCHANGED <<clobber, keys, icons, loaded, icon_list, mappings,
                   cmds_regular, cmds_solid, cmds_brands, nameVars, cmdVars>>

NextMain ==
    \/ RemoveExisting
    \/ RaiseExists
    \/ NoExisting
    \/ LoadIcons
    \/ BuildLists
    \/ ExcludeNones
    \/ WriteOutfile

Spec == InitMain /\ [][NextMain]_vars

----------------------------------------------------------------------------
(* one call of make_cmdname on any string of the input alphabet *)

InitName ==
    /\ n_pc = "call" /\ n_name \in NameInputs /\ n_out = <<>>
    /\ MainIdle /\ CmdIdle

CallCmdname ==
    /\ n_pc = "call"
    /\ n_out' = make_cmdname(n_name)
    /\ n_pc' = "returned"
    /\ UNCHANGED <<n_name, mainVars, cmdVars>>

NextName == CallCmdname

SpecName == InitName /\ [][NextName]_vars

----------------------------------------------------------------------------
(* one call of make_cmd with any style argument *)

InitCmd ==
    /\ c_pc = "call" /\ c_name \in NamePool /\ c_icon \in CmdIcons
    /\ c_style \in StyleArgs /\ c_out = None
    /\ MainIdle /\ NameIdle

CallCmd ==
    /\ c_pc = "call"
    /\ c_out' = make_cmd(c_name, c_icon, c_style)
    /\ c_pc' = IF c_out'.kind = "ValueError" THEN "raised" ELSE "returned"
    /\ UNCHANGED <<c_name, c_icon, c_style, mainVars, nameVars>>

NextCmd == CallCmd

SpecCmd == InitCmd /\ [][NextCmd]_vars

----------------------------------------------------------------------------
(* Properties of make_cmdname (checked under SpecName) *)

IsAlnum(c) == IsLower(c) \/ IsUpperLetter(c) \/ IsDigit(c)

\* the positions of name that hold a character other than the hyphen
RECURSIVE KeptPositions(_, _)
KeptPositions(name, i) ==
    IF i > Len(name) THEN <<>>
    ELSE IF name[i] = "-" THEN KeptPositions(name, i + 1)
    ELSE <<i>> \o KeptPositions(name, i + 1)

RECURSIVE SpecScan(_, _)
SpecScan(rest, capitalize) ==
    IF rest = <<>> THEN <<>>
    ELSE IF rest[1] = "-" THEN SpecScan(Tail(rest), TRUE)
    ELSE <<IF capitalize THEN Upper(rest[1]) ELSE rest[1]>>
             \o SpecScan(Tail(rest), FALSE)

\* a run of hyphens replaced by one hyphen
RECURSIVE CollapseHyphens(_)
CollapseHyphens(name) ==
    IF Len(name) < 2 THEN name
    ELSE IF name[1] = "-" /\ name[2] = "-" THEN CollapseHyphens(Tail(name))
    ELSE <<name[1]>> \o CollapseHyphens(Tail(name))

\* C7: for every string over lowercase letters, digits and hyphens (empty,
\* leading, trailing and consecutive hyphens included) make_cmdname returns
\* what the specified scan returns; empty input gives empty output and
\* consecutive hyphens behave like a single hyphen.
C7_CmdnameIsSpecScan ==
    n_pc = "returned" =>
        /\ n_out = SpecScan(n_name, TRUE)
        /\ n_name = <<>> => n_out = <<>>
        /\ n_out = SpecScan(CollapseHyphens(n_name), TRUE)

\* C7 witness: a call returned for a name that starts with two hyphens
C7_Witness ==
    /\ n_pc = "returned"
    /\ n_name = <<"-", "-", "a">>
    /\ n_out = <<"A">>

----------------------------------------------------------------------------
(* Properties of make_cmd (checked under SpecCmd) *)

FontFamilies == { FONTS[st] : st \in Styles }

\* the font family identifiers a statement names
FontsNamed(text) == { f \in FontFamilies : \E i \in 1..Len(text) : text[i] = f }

\* the style a target resolves to for a set of styles, "none" if there is none
ResolvedStyle(styles, target) ==
    IF target \in styles THEN target
    ELSE IF target = "solid" /\ "regular" \in styles THEN "regular"
    ELSE IF target = "regular" /\ "solid" \in styles THEN "solid"
    ELSE "none"

\* C1: for a target in {regular, solid, brands} make_cmd returns a statement
\* naming exactly the font family bound to the target when the icon has it,
\* else the one bound to the fallback when that exists and the icon has it,
\* else None; styles {solid} with target regular gives a FontAwesomeSolid
\* statement and with target brands gives None.
C1_MakeCmdResolves ==
    (c_pc # "call" /\ c_style \in Styles) =>
        LET r == ResolvedStyle(c_icon.styles, c_style)
        IN  /\ r = "none" => c_out = None
            /\ r # "none" =>
                 /\ c_out.kind = "stmt"
                 /\ FontsNamed(c_out.text) = {FONTS[r]}
            /\ (c_icon.styles = {"solid"} /\ c_style = "regular") =>
                 /\ c_out.kind = "stmt"
                 /\ FontsNamed(c_out.text) = {"FontAwesomeSolid"}
            /\ (c_icon.styles = {"solid"} /\ c_style = "brands") =>
                 c_out = None

\* C1 witness: a solid-only icon asked for in regular got a statement
C1_Witness ==
    /\ c_pc = "returned"
    /\ c_icon.styles = {"solid"}
    /\ c_style = "regular"
    /\ c_out.kind = "stmt"

\* C5: a style outside {regular, solid, brands} always ends in ValueError,
\* whatever the icon's styles, and never in a statement or None; a style
\* inside never ends in an error, and gives None when the icon has neither
\* the target nor its fallback.
C5_InvalidStyleRaises ==
    c_pc # "call" =>
        /\ c_style \notin Styles =>
             c_pc = "raised" /\ c_out.kind = "ValueError"
        /\ c_style \in Styles =>
             /\ c_pc = "returned" /\ c_out.kind # "ValueError"
             /\ ResolvedStyle(c_icon.styles, c_style) = "none" =>
                  c_out.kind = "None"

\* C5 witness: a call with an unknown style for an icon that has styles
C5_Witness ==
    /\ c_pc = "raised"
    /\ c_style = "light"
    /\ c_icon.styles = {"solid", "regular"}

----------------------------------------------------------------------------
(* Properties of main (checked under Spec) *)

Generated == pc \in {"write", "done"}

\* a is before b in lexicographic order: at the first position where they
\* differ a has the smaller character, or a is a proper prefix of b
LexBefore(a, b) ==
    \E k \in 1..(Len(b)) :
        /\ k <= Len(a) + 1
        /\ \A j \in 1..(k - 1) : a[j] = b[j]
        /\ \/ k = Len(a) + 1
           \/ k <= Len(a) /\ Ord(a[k]) < Ord(b[k])

\* the names of a set in lexicographic order
InOrder(S) ==
    CHOOSE s \in [1..Cardinality(S) -> S] :
        \A i, j \in 1..Cardinality(S) : i < j => LexBefore(s[i], s[j])

\* the icons that get a command for a target
Available(target) ==
    { n \in DOMAIN icons :
        \/ target \in icons[n].styles
        \/ target = "solid" /\ "regular" \in icons[n].styles
        \/ target = "regular" /\ "solid" \in icons[n].styles }

ListOf(target) ==
    IF target = "solid" THEN cmds_solid
    ELSE IF target = "regular" THEN cmds_regular
    ELSE cmds_brands

\* C2: each per-style command list is exactly the make_cmd statements, in
\* lexicographic icon-name order, of the icons that have the target or its
\* fallback, no-output results dropped; its length is at most the icon
\* count and equals the number of such icons; the brands list has as many
\* entries as there are icons with brands.
C2_CommandLists ==
    Generated =>
        /\ \A target \in Styles :
             LET names == InOrder(Available(target))
                 list  == ListOf(target)
             IN  /\ Len(list) = Cardinality(Available(target))
                 /\ Len(list) <= Cardinality(DOMAIN icons)
                 /\ \A i \in 1..Len(list) :
                      /\ list[i].kind = "stmt"
                      /\ list[i] = make_cmd(names[i], icons[names[i]], target)
        /\ Len(cmds_brands) =
             Cardinality({ n \in DOMAIN icons : "brands" \in icons[n].styles })

\* C2 witness: two icons, the first in name order is dropped from the
\* brands list and the second from the solid list
C2_Witness ==
    /\ pc = "done"
    /\ Len(icon_list) = 2
    /\ icons[icon_list[1]].styles = {"solid"}
    /\ icons[icon_list[2]].styles = {"brands"}
    /\ Len(cmds_solid) = 1 /\ Len(cmds_regular) = 1 /\ Len(cmds_brands) = 1

\* a hexadecimal digit in upper case
HexUpper(c) ==
    CASE c = "a" -> "A" [] c = "b" -> "B" [] c = "c" -> "C"
      [] c = "d" -> "D" [] c = "e" -> "E" [] c = "f" -> "F"
      [] OTHER -> c

\* C3: the mapping list has exactly one statement per icon, in lexicographic
\* icon-name order, each binding faicon@<name> to the icon's code point in
\* upper-case hex, whatever the icon's styles; its length is the icon count.
C3_MappingList ==
    pc \in {"exclude", "write", "done"} =>
        LET names == InOrder(DOMAIN icons)
        IN  /\ Len(mappings) = Cardinality(DOMAIN icons)
            /\ Len(mappings) = Len(keys)
            /\ \A i \in 1..Len(mappings) :
                 LET u == icons[names[i]].unicode
                 IN  mappings[i] =
                       <<"\\expandafter\\def\\csname faicon@">> \o names[i]
                         \o <<"\\endcsname{\\symbol{\"">>
                         \o [k \in 1..Len(u) |-> HexUpper(u[k])] \o <<"}}">>

\* C3 witness: two icons are mapped and one of them is in no brands command
C3_Witness ==
    /\ pc = "done"
    /\ Len(mappings) = 2
    /\ Len(cmds_brands) = 1
    /\ Len(cmds_solid) = 1

\* the orders in which the keys of the same icon set can be presented
KeyPermutations ==
    { q \in [1..Len(keys) -> Range(keys)] :
        \A i, j \in 1..Len(keys) : i # j => q[i] # q[j] }

\* the lists main builds when the keys come in order q
ListsFor(q) ==
    LET il == sorted(q)
    IN  <<MakeMappings(il, icons),
          ExcludeNone(MakeCmds(il, icons, "solid")),
          ExcludeNone(MakeCmds(il, icons, "regular")),
          ExcludeNone(MakeCmds(il, icons, "brands"))>>

\* C6: the same icon set with its keys presented in any insertion order
\* yields the same mapping list and the same solid, regular and brands
\* command lists, hence the same written text.
C6_OrderIndependent ==
    Generated =>
        \A q \in KeyPermutations :
            /\ <<mappings, cmds_solid, cmds_regular, cmds_brands>> = ListsFor(q)
            /\ pc = "done" =>
                 outfile.text = StyText(ListsFor(q)[1], ListsFor(q)[2],
                                        ListsFor(q)[3], ListsFor(q)[4])

\* C6 witness: a finished run whose keys were not presented in sorted order
C6_Witness ==
    /\ pc = "done"
    /\ Len(keys) = 2
    /\ keys # icon_list

\* C8: when the output file exists and --clobber is not given the run fails
\* before any input is read or output written and the file stays as it is;
\* an existing output file is removed or overwritten only with --clobber.
C8_NoClobberFails ==
    /\ [][ /\ (pc = "check" /\ outfile.exists /\ ~clobber) =>
                (pc' = "OSError" /\ outfile' = outfile /\ ~loaded')
           /\ (outfile.exists /\ outfile' # outfile) => clobber
         ]_vars
    /\ [](pc = "OSError" =>
            ~clobber /\ ~loaded /\ outfile = OldFile /\ mappings = <<>>)

\* C8 witness: the run stopped on an existing file
C8_Witness ==
    /\ pc = "OSError"
    /\ outfile = OldFile
    /\ ~clobber

\* the command name a command statement defines: the tokens between \def\fa
\* and the opening braces
CmdNameOf(text) ==
    SubSeq(text, 2, (CHOOSE i \in 1..Len(text) : text[i] = "{{\\") - 1)

\* the icon name a command statement looks up
IconNameOf(text) ==
    SubSeq(text, (CHOOSE i \in 1..Len(text) : text[i] = "\\csname faicon@") + 1,
           Len(text) - 1)

\* C9: no two statements of the same per-style command list define the same
\* command name.
C9_DistinctCommandNames ==
    Generated =>
        \A target \in Styles :
            \A i, j \in 1..Len(ListOf(target)) :
                i # j => CmdNameOf(ListOf(target)[i].text)
                           # CmdNameOf(ListOf(target)[j].text)

\* C10: the solid and the regular command list hold commands for the same
\* icons in the same order, the icons whose styles contain solid or regular;
\* the two statements of an icon are identical when it has exactly one of
\* the two styles and differ only in the font family (FontAwesomeSolid
\* against FontAwesomeRegular) when it has both.
C10_SolidRegularAligned ==
    Generated =>
        LET names == InOrder({ n \in DOMAIN icons :
                        icons[n].styles \cap {"solid", "regular"} # {} })
        IN  /\ Len(cmds_solid) = Len(names)
            /\ Len(cmds_regular) = Len(names)
            /\ \A i \in 1..Len(names) :
                 LET so   == cmds_solid[i].text
                     re   == cmds_regular[i].text
                     both == {"solid", "regular"} \subseteq
                                 icons[names[i]].styles
                 IN  /\ IconNameOf(so) = names[i]
                     /\ IconNameOf(re) = names[i]
                     /\ ~both => so = re
                     /\ both =>
                          /\ Len(so) = Len(re)
                          /\ \E k \in 1..Len(so) :
                               /\ so[k] = "FontAwesomeSolid"
                               /\ re[k] = "FontAwesomeRegular"
                               /\ \A m \in 1..Len(so) : m # k => so[m] = re[m]

\* C10 witness: one icon with both styles and one with solid only
C10_Witness ==
    /\ pc = "done"
    /\ Len(icon_list) = 2
    /\ icons[icon_list[1]].styles = {"solid", "regular"}
    /\ icons[icon_list[2]].styles = {"solid"}
    /\ Len(cmds_regular) = 2

====
